---- MODULE Spec2Model ----
\* A model of the hookrace platformer (src/plat.py, src/tilemap.py):
\* the tile map and its loader, the swept box mover move_box, the per-tick
\* physics of the player and the fixed-timestep main loop.  The Map of
\* src/tilemap.py is the Map of src/plat.py without the collision set.
\*
\* Numbers.  A Python float is an IEEE 754 double and is modelled as one: a
\* record [neg, m, e] standing for (-1)^neg * m * 2^e, where m is a natural
\* number of exactly Precision bits (fewer only at the smallest exponent
\* MinExp), and m = 0 for zero.  Every float operation of the code (+, -, *,
\* /, sqrt, round, int, comparisons) is the exact operation followed by
\* rounding to nearest, ties to even.  m is kept as a sequence of limbs of
\* LimbBits bits, least significant first, since it does not fit an integer
\* of the model checker.  Infinities, NaN and the sign of zero are left out:
\* no value of the program gets there.  A Python int used where a float is
\* expected (Point2d(170, 500), vel.x = 0) is the float of the same value.
EXTENDS Integers, Sequences, FiniteSets, TLC

VARIABLES
    map,        \* Map: [width, height, tiles], tiles row-major
    load,       \* Map.__init__ in progress: [status, rows]
    query,      \* the last get_tile call: [x, y, nx, ny, pos, value]
    mb,         \* the locals of the running / last move_box call
    player,     \* Player: [pos, vel], floats
    inputs,     \* Game.inputs: [LEFT, RIGHT, JUMP, RESTART, QUIT] -> BOOLEAN
    pc,         \* position of main() / of the call under study
    elapsed,    \* time() - start_time, in 1/100 s (half a tick)
    last_tick,  \* main: last_tick
    new_tick,   \* main: new_tick
    tick,       \* main: loop variable of "for tick in range(last_tick, new_tick)"
    calls,      \* number of physics() calls since start (history)
    frame       \* [ran, keys]: physics() calls of the current frame (history)
                \* and key events handled so far

vars == <<map, load, query, mb, player, inputs, pc, elapsed, last_tick,
          new_tick, tick, calls, frame>>

-----------------------------------------------------------------------------
\* Integers

Min(a, b) == IF a < b THEN a ELSE b
Max(a, b) == IF a > b THEN a ELSE b

\* int(a / b) for integers a and b > 0: the quotient is exact or lies
\* strictly between two integers, and int() truncates toward zero.
IntTrunc(a, b) == IF a >= 0 THEN a \div b ELSE -((-a) \div b)

-----------------------------------------------------------------------------
\* Natural numbers of any size: sequences of limbs, least significant first,
\* without leading zero limbs (<<>> is 0).

LimbBits == 14
Base == 16384

RECURSIVE Trim(_)
Trim(a) == IF a = <<>> \/ a[Len(a)] # 0 THEN a ELSE Trim(SubSeq(a, 1, Len(a) - 1))

RECURSIVE Carry(_, _)
\* The limbs of the number whose columns (any integers) are cols, plus c.
Carry(cols, c) ==
    IF cols = <<>>
    THEN IF c = 0 THEN <<>> ELSE <<c % Base>> \o Carry(<<>>, c \div Base)
    ELSE <<(Head(cols) + c) % Base>> \o Carry(Tail(cols), (Head(cols) + c) \div Base)

Limb(a, i) == IF i >= 1 /\ i <= Len(a) THEN a[i] ELSE 0

BAdd(a, b) == Carry([i \in 1..Max(Len(a), Len(b)) |-> Limb(a, i) + Limb(b, i)], 0)
\* a - b for a >= b
BSub(a, b) == Trim(Carry([i \in 1..Len(a) |-> a[i] - Limb(b, i)], 0))

RECURSIVE CmpFrom(_, _, _)
CmpFrom(a, b, i) ==
    IF i = 0 THEN 0
    ELSE IF a[i] # b[i] THEN (IF a[i] < b[i] THEN -1 ELSE 1)
    ELSE CmpFrom(a, b, i - 1)
\* the sign of a - b
BCmp(a, b) ==
    IF Len(a) # Len(b) THEN (IF Len(a) < Len(b) THEN -1 ELSE 1)
    ELSE CmpFrom(a, b, Len(a))

RECURSIVE ColSum(_, _, _, _, _)
ColSum(a, b, k, i, hi) ==
    IF i > hi THEN 0 ELSE a[i] * b[k + 1 - i] + ColSum(a, b, k, i + 1, hi)
BMul(a, b) ==
    IF a = <<>> \/ b = <<>> THEN <<>>
    ELSE Trim(Carry([k \in 1..(Len(a) + Len(b) - 1) |->
                        ColSum(a, b, k, Max(1, k + 1 - Len(b)), Min(Len(a), k))], 0))

\* a * 2^s
BShl(a, s) ==
    IF a = <<>> \/ s = 0 THEN a
    ELSE LET p == 2^(s % LimbBits)
         IN  [i \in 1..(s \div LimbBits) |-> 0]
             \o (IF p = 1 THEN a ELSE Carry([i \in 1..Len(a) |-> a[i] * p], 0))

\* floor(a / 2^s)
BShr(a, s) ==
    LET q == s \div LimbBits
        p == 2^(s % LimbBits)
        up == Base \div p
    IN  IF q >= Len(a) THEN <<>>
        ELSE Trim([i \in 1..(Len(a) - q) |->
                     (a[i + q] \div p) + (Limb(a, i + q + 1) % p) * up])

\* bit k of a (bit 0 is the lowest), and whether any bit below bit k is set
Bit(a, k) == IF k < 0 THEN 0 ELSE (Limb(a, k \div LimbBits + 1) \div 2^(k % LimbBits)) % 2
AnyBelow(a, k) ==
    /\ k > 0
    /\ \/ \E i \in 1..Min(Len(a), k \div LimbBits) : a[i] # 0
       \/ Limb(a, k \div LimbBits + 1) % 2^(k % LimbBits) # 0

\* the number of bits of a limb t >= 1
LimbLen(t) ==
    IF t < 128
    THEN (IF t < 8 THEN (IF t < 2 THEN 1 ELSE IF t < 4 THEN 2 ELSE 3)
          ELSE IF t < 32 THEN (IF t < 16 THEN 4 ELSE 5)
          ELSE IF t < 64 THEN 6 ELSE 7)
    ELSE (IF t < 1024 THEN (IF t < 256 THEN 8 ELSE IF t < 512 THEN 9 ELSE 10)
          ELSE IF t < 4096 THEN (IF t < 2048 THEN 11 ELSE 12)
          ELSE IF t < 8192 THEN 13 ELSE 14)

BitLen(a) == IF a = <<>> THEN 0 ELSE (Len(a) - 1) * LimbBits + LimbLen(a[Len(a)])

FromNat(n) == Carry(<<n>>, 0)
RECURSIVE ToNat(_)
ToNat(a) == IF a = <<>> THEN 0 ELSE Head(a) + Base * ToNat(Tail(a))

RECURSIVE DivLimbs(_, _, _, _)
\* Long division of the limbs i, i-1, .. 1 of a by the integer d, r carried in.
DivLimbs(a, d, i, r) ==
    IF i = 0 THEN [q |-> <<>>, r |-> r]
    ELSE LET t == r * Base + a[i]
             rest == DivLimbs(a, d, i - 1, t % d)
         IN  [q |-> Append(rest.q, t \div d), r |-> rest.r]

RECURSIVE NatSqrt(_, _, _)
\* floor(sqrt(n)) for an integer n < Base^2, bit by bit from bit down.
NatSqrt(n, r, bit) ==
    IF bit < 0 THEN r
    ELSE IF (r + 2^bit) * (r + 2^bit) <= n THEN NatSqrt(n, r + 2^bit, bit - 1)
    ELSE NatSqrt(n, r, bit - 1)

\* (2 * root * Base + q) * q: what the digit q below root adds to the square.
Trial(root, q) ==
    IF q = 0 THEN <<>> ELSE BMul(<<q>> \o BAdd(root, root), <<q>>)

RECURSIVE FitDigit(_, _, _)
\* The largest digit q with Trial(root, q) <= rem, searched from q.
FitDigit(root, rem, q) ==
    IF q > 0 /\ BCmp(Trial(root, q), rem) > 0 THEN FitDigit(root, rem, q - 1)
    ELSE IF q < Base - 1 /\ BCmp(Trial(root, q + 1), rem) <= 0
         THEN FitDigit(root, rem, q + 1)
    ELSE q

RECURSIVE SqrtDigits(_, _, _, _)

\* The step of SqrtDigits that has found the next limb q of the root.
SqrtTake(M, root, r2, q, j) ==
    SqrtDigits(M, <<q>> \o root, BSub(r2, Trial(root, q)), j - 1)

\* The step of SqrtDigits for the remainder r2 with two more limbs taken in:
\* the next limb is estimated from the top of r2 and the top limb of root.
SqrtStep(M, root, r2, j) ==
    SqrtTake(M, root, r2,
             FitDigit(root, r2,
                      Min(Base - 1, ToNat(BShr(r2, 1 + LimbBits * Len(root)))
                                        \div root[Len(root)])),
             j)

\* Square root by hand in base Base: root and rem are floor(sqrt(T)) and
\* T - root^2 for the limbs T of M above limb 2 * j; each step takes in two
\* more limbs of M and finds one more limb of the root.
SqrtDigits(M, root, rem, j) ==
    IF j = 0 THEN [root |-> root, rem |-> rem]
    ELSE SqrtStep(M, root, Trim(<<Limb(M, 2 * j - 1), Limb(M, 2 * j)>> \o rem), j)

\* [root, rem] with root = floor(sqrt(M)) and rem = M - root^2, for M of 7 or
\* 8 limbs whose two top limbs are not both zero.
ISqrt(M) ==
    LET top == Limb(M, 8) * Base + Limb(M, 7)
        r == NatSqrt(top, 0, LimbBits - 1)
    IN  SqrtDigits(M, <<r>>, Trim(FromNat(top - r * r)), 3)

-----------------------------------------------------------------------------
\* Python floats (IEEE 754 binary64)

Precision == 53
MinExp == -1074

Zero == [neg |-> FALSE, m |-> <<>>, e |-> 0]

\* Whether M / 2^sh rounds up to the nearest integer, ties to even.
RoundsUp(M, sh) == Bit(M, sh - 1) = 1 /\ (AnyBelow(M, sh - 1) \/ Bit(M, sh) = 1)

\* The float (-1)^neg * r * 2^e for r of at most Precision + 1 bits (a
\* rounded mantissa that carried into one more bit is a power of two).
Normal(neg, r, e) ==
    IF r = <<>> THEN Zero
    ELSE IF BitLen(r) > Precision THEN [neg |-> neg, m |-> BShr(r, 1), e |-> e + 1]
    ELSE [neg |-> neg, m |-> r, e |-> e]

\* Round with sh the number of low bits of M to drop (to add, if negative).
RoundBy(neg, M, e, sh) ==
    IF sh <= 0 THEN [neg |-> neg, m |-> BShl(M, -sh), e |-> e + sh]
    ELSE Normal(neg,
                IF RoundsUp(M, sh) THEN BAdd(BShr(M, sh), <<1>>) ELSE BShr(M, sh),
                e + sh)

\* The float nearest to (-1)^neg * M * 2^e, ties to even.
Round(neg, M, e) ==
    IF M = <<>> THEN Zero
    ELSE RoundBy(neg, M, e, Max(BitLen(M) - Precision, MinExp - e))

\* Round for the quotient dv of N * 2^72 by d: a remainder only decides the
\* direction of rounding.
RoundQuotient(neg, dv) ==
    Round(neg, BAdd(BShl(Trim(dv.q), 1), IF dv.r # 0 THEN <<1>> ELSE <<>>), -73)

Quotient(N, d) == DivLimbs(N, d, Len(N), 0)

\* The float n / d for integers n and d > 0: what a literal such as 0.95
\* (95 / 100) denotes, and what 1.0 / float(d) computes.
Float(n, d) ==
    IF n = 0 THEN Zero
    ELSE RoundQuotient(n < 0, Quotient(BShl(FromNat(IF n < 0 THEN -n ELSE n), 72), d))

\* float(n), and an int where a float is expected
F(n) == Float(n, 1)

FNeg(a) == IF a.m = <<>> THEN a ELSE [a EXCEPT !.neg = ~a.neg]

\* The operand a of a + b: an operand more than Far bits below the other
\* only decides the direction of rounding, and is replaced by one unit Far
\* bits below; one more than Far bits above is written with Far more bits.
Far == 64
Near(a, b) ==
    IF a.e - b.e > Far THEN [a EXCEPT !.m = BShl(a.m, Far), !.e = a.e - Far]
    ELSE IF b.e - a.e > Far THEN [a EXCEPT !.m = <<1>>, !.e = b.e - Far]
    ELSE a

\* (-1)^na * A * 2^e + (-1)^nb * B * 2^e for na # nb, c the sign of A - B
AddOpposite(na, nb, A, B, e, c) ==
    IF c = 0 THEN Zero
    ELSE Round(IF c > 0 THEN na ELSE nb,
               IF c > 0 THEN BSub(A, B) ELSE BSub(B, A), e)

AddMantissas(na, nb, A, B, e) ==
    IF na = nb THEN Round(na, BAdd(A, B), e)
    ELSE AddOpposite(na, nb, A, B, e, BCmp(A, B))

AddAt(x, y, e) == AddMantissas(x.neg, y.neg, BShl(x.m, x.e - e), BShl(y.m, y.e - e), e)

AddNear(x, y) == AddAt(x, y, Min(x.e, y.e))

\* a + b
FAdd(a, b) ==
    IF a.m = <<>> THEN b
    ELSE IF b.m = <<>> THEN a
    ELSE AddNear(Near(a, b), Near(b, a))

FSub(a, b) == FAdd(a, FNeg(b))

FMul(a, b) ==
    IF a.m = <<>> \/ b.m = <<>> THEN Zero
    ELSE Round(a.neg # b.neg, BMul(a.m, b.m), a.e + b.e)

\* the sign of a - b
FCmp(a, b) ==
    LET sa == IF a.m = <<>> THEN 0 ELSE IF a.neg THEN -1 ELSE 1
        sb == IF b.m = <<>> THEN 0 ELSE IF b.neg THEN -1 ELSE 1
        ta == a.e + BitLen(a.m)
        tb == b.e + BitLen(b.m)
        e == Min(a.e, b.e)
    IN  IF sa # sb THEN (IF sa < sb THEN -1 ELSE 1)
        ELSE IF sa = 0 THEN 0
        ELSE IF ta # tb THEN (IF ta < tb THEN -sa ELSE sa)
        ELSE sa * BCmp(BShl(a.m, a.e - e), BShl(b.m, b.e - e))

FLt(a, b) == FCmp(a, b) < 0
FLe(a, b) == FCmp(a, b) <= 0

\* min(a, b) and max(a, b) of Python: the first argument unless the second
\* is smaller (larger).
FMin(a, b) == IF FLt(b, a) THEN b ELSE a
FMax(a, b) == IF FLt(a, b) THEN b ELSE a

\* Round for the root s of m * 2^k: a remainder only decides the direction
\* of rounding.
RoundRoot(s, e) ==
    Round(FALSE, BAdd(BShl(s.root, 1), IF s.rem = <<>> THEN <<>> ELSE <<1>>), e)

\* sqrt(a) with the mantissa shifted by k bits, a.e - k even
SqrtShifted(a, k) == RoundRoot(ISqrt(BShl(a.m, k)), (a.e - k) \div 2 - 1)

\* The shift that brings a mantissa of len bits to 8 limbs or one bit less,
\* leaving an even exponent.
SqrtShift(e, k0) == IF (e - k0) % 2 = 0 THEN k0 ELSE k0 - 1

\* math.sqrt(a) for a >= 0: correctly rounded.
FSqrt(a) ==
    IF a.m = <<>> THEN Zero
    ELSE SqrtShifted(a, SqrtShift(a.e, 8 * LimbBits - BitLen(a.m)))

Signed(neg, n) == IF neg THEN -n ELSE n

\* int(a): truncation toward zero.
FTrunc(a) ==
    Signed(a.neg, ToNat(IF a.e >= 0 THEN BShl(a.m, a.e) ELSE BShr(a.m, -a.e)))

\* int(round(a)): Python 3 rounds to the nearest integer, ties to even.
RoundHalfEven(a) ==
    IF a.e >= 0 THEN FTrunc(a)
    ELSE Signed(a.neg, ToNat(BShr(a.m, -a.e)) + (IF RoundsUp(a.m, -a.e) THEN 1 ELSE 0))

-----------------------------------------------------------------------------
\* Point2d / Vector2d

Point2d(x, y) == [x |-> x, y |-> y]

\* __add__, __mul__ and len()
Add(p, q) == Point2d(FAdd(p.x, q.x), FAdd(p.y, q.y))
Mul(p, scalar) == Point2d(FMul(p.x, scalar), FMul(p.y, scalar))
len(p) == FSqrt(FAdd(FMul(p.x, p.x), FMul(p.y, p.y)))

-----------------------------------------------------------------------------
\* Tiles

TILE_SIZE == [x |-> 64, y |-> 64]
PLAYER_SIZE == Point2d(F(64), F(64))

AIR == 0
START == 78
FINISH == 110

\* list.__getitem__ with Python's negative indices.
Index(tiles, pos) ==
    IF pos >= 0 /\ pos < Len(tiles) THEN tiles[pos + 1]
    ELSE IF pos < 0 /\ -pos <= Len(tiles) THEN tiles[Len(tiles) + pos + 1]
    ELSE "IndexError"

\* Mutant: the column is not clamped at 0.
TileColumn_NoLowerClamp(m, x) == Min(IntTrunc(x, TILE_SIZE.x), m.width - 1)

TileColumn(m, x) == Min(Max(IntTrunc(x, TILE_SIZE.x), 0), m.width - 1)
TileRow(m, y) == Min(Max(IntTrunc(y, TILE_SIZE.y), 0), m.height - 1)

\* Map.get_tile(x, y), x and y integers in world units.
get_tile(m, x, y) ==
    LET nx == TileColumn(m, x)
        ny == TileRow(m, y)
        pos == ny * m.width + nx
    IN  Index(m.tiles, pos)

is_tile_solid(m, x, y) == get_tile(m, x, y) \notin {AIR, START, FINISH}

\* Map.is_solid(point)
is_solid(m, point) ==
    is_tile_solid(m, RoundHalfEven(point.x), RoundHalfEven(point.y))

\* The float literals 0.25, 0.5 and 1.
Quarter == Float(25, 100)
Half == Float(5, 10)
One == F(1)

\* Mutant: the size is halved twice.
HalfSize_Quarter(size) == Mul(size, Quarter)

\* size = size * 0.5
HalfSize(size) == Mul(size, Half)

\* The four points test_box looks at, h the halved size.
Corners(pos, h) ==
    { Point2d(x, y) : x \in {FSub(pos.x, h.x), FAdd(pos.x, h.x)},
                      y \in {FSub(pos.y, h.y), FAdd(pos.y, h.y)} }

BoxCorners(pos, size) == Corners(pos, HalfSize(size))

\* Map.test_box(pos, size)
test_box(m, pos, size) == \E c \in BoxCorners(pos, size) : is_solid(m, c)

\* The two points on_ground looks at, h the halved size: pos.y + size.y + 1
Feet(pos, h) ==
    { Point2d(x, FAdd(FAdd(pos.y, h.y), One)) : x \in {FSub(pos.x, h.x), FAdd(pos.x, h.x)} }

\* Map.on_ground(pos, size)
on_ground(m, pos, size) == \E c \in Feet(pos, HalfSize(size)) : is_solid(m, c)

-----------------------------------------------------------------------------
\* Map.move_box

\* The locals of move_box on entry to the loop (distance is never negative,
\* so "if distance < 0" is never taken).  argPos / argVel are the caller's
\* two objects, velIsArg says whether the local name vel is still bound to
\* the caller's.  History: in (the arguments as passed), tests (every box
\* test made), trail (the position held after each iteration), last (the
\* iteration just made: pos and vel before it, and the branch taken).
MoveBoxLocals(pos, vel, size, distance, maximum) ==
    [ pos |-> pos,
      vel |-> vel,
      size |-> size,
      distance |-> distance,
      maximum |-> maximum,
      fraction |-> Float(1, maximum + 1),
      i |-> 0,
      result |-> {},
      argPos |-> pos,
      argVel |-> vel,
      velIsArg |-> TRUE,
      in |-> [pos |-> pos, vel |-> vel],
      tests |-> {},
      trail |-> {},
      last |-> [ pos |-> pos, vel |-> vel, cand |-> pos,
                 collide |-> FALSE, hitY |-> FALSE, hitX |-> FALSE,
                 corner |-> FALSE ] ]

\* maximum = int(distance)
MoveBoxFor(pos, vel, size, distance) ==
    MoveBoxLocals(pos, vel, size, distance, FTrunc(distance))

\* distance = vel.len()
MoveBoxStart(pos, vel, size) == MoveBoxFor(pos, vel, size, len(vel))

\* new_pos = pos + vel * fraction
Candidate(b) == Add(b.pos, Mul(b.vel, b.fraction))

\* Point2d(pos.x, new_pos.y)
YOnly(b, cand) == Point2d(b.pos.x, cand.y)
\* Point2d(new_pos.x, pos.y): new_pos.x is still the candidate's
XOnly(b, cand) == Point2d(cand.x, b.pos.y)

\* Mutant: any hit stops the body dead on both axes.
ResolveVel_StopDead(vel, hitY, hitX, corner) ==
    IF corner \/ hitY \/ hitX THEN Point2d(Zero, Zero) ELSE vel

\* The velocity the local name vel holds after the collision branch.
ResolveVel(vel, hitY, hitX, corner) ==
    IF corner THEN Point2d(Zero, Zero)
    ELSE Point2d(IF hitX THEN Zero ELSE vel.x, IF hitY THEN Zero ELSE vel.y)

\* Mutant: the corner branch forgets "new_pos = pos".
ResolvePos_CornerMoves(pos, cand, hitY, hitX, corner) ==
    Point2d(IF hitX THEN pos.x ELSE cand.x, IF hitY THEN pos.y ELSE cand.y)

\* Mutant: the X branch forgets "new_pos.x = pos.x".
ResolvePos_NoFreezeX(pos, cand, hitY, hitX, corner) ==
    IF corner THEN pos
    ELSE Point2d(cand.x, IF hitY THEN pos.y ELSE cand.y)

\* The position assigned to pos at the end of the iteration.
ResolvePos(pos, cand, hitY, hitX, corner) ==
    IF corner THEN pos
    ELSE Point2d(IF hitX THEN pos.x ELSE cand.x, IF hitY THEN pos.y ELSE cand.y)

\* The caller's velocity object after the iteration: "vel.y = 0" and
\* "vel.x = 0" write through the local name; "vel = Vector2d(0, 0)" rebinds it.
WriteArgVel(b, hitY, hitX) ==
    IF b.velIsArg
    THEN Point2d(IF hitX THEN Zero ELSE b.argVel.x, IF hitY THEN Zero ELSE b.argVel.y)
    ELSE b.argVel

\* The body of the loop given the candidate and the answers of its box
\* tests: collide for test_box(new_pos), ty for the Y-only test, tx for the
\* X-only test (the two are asked, and recorded in tests, only when new_pos
\* collides).
Iteration(b, cand, collide, ty, tx) ==
    LET hitY == collide /\ ty
        hitX == collide /\ tx
        corner == collide /\ ~hitY /\ ~hitX
        new_pos == ResolvePos(b.pos, cand, hitY, hitX, corner)
        asked == IF collide
                 THEN { [at |-> cand, hit |-> TRUE],
                        [at |-> YOnly(b, cand), hit |-> ty],
                        [at |-> XOnly(b, cand), hit |-> tx] }
                 ELSE { [at |-> cand, hit |-> FALSE] }
    IN  [ b EXCEPT
            !.pos = new_pos,
            !.vel = ResolveVel(b.vel, hitY, hitX, corner),
            !.result = @ \cup (IF hitY THEN {"Y"} ELSE {})
                         \cup (IF hitX THEN {"X"} ELSE {})
                         \cup (IF corner THEN {"CORNER"} ELSE {}),
            !.argVel = WriteArgVel(b, hitY, hitX),
            !.velIsArg = @ /\ ~corner,
            !.tests = @ \cup asked,
            !.trail = @ \cup {new_pos},
            !.i = @ + 1,
            !.last = [ pos |-> b.pos, vel |-> b.vel, cand |-> cand,
                       collide |-> collide, hitY |-> hitY, hitX |-> hitX,
                       corner |-> corner ] ]

\* The iteration for the candidate cand.
TestAndMove(m, b, cand) ==
    Iteration(b, cand, test_box(m, cand, b.size),
              test_box(m, YOnly(b, cand), b.size),
              test_box(m, XOnly(b, cand), b.size))

\* One iteration of "for i in range(0, maximum + 1)".
SubStep(m, b) == TestAndMove(m, b, Candidate(b))

\* Mutant: the loop bound is taken from the velocity as it is now.
LoopDone_Recomputed(b) == b.i >= FTrunc(len(b.vel)) + 1

\* "for i in range(0, maximum + 1)" is over: maximum was fixed on entry.
LoopDone(b) == b.i >= b.maximum + 1

RECURSIVE RunLoop(_, _)
RunLoop(m, b) == IF LoopDone(b) THEN b ELSE RunLoop(m, SubStep(m, b))

\* The whole call: the locals at "return result, pos, vel".
move_box(m, pos, vel, size) == RunLoop(m, MoveBoxStart(pos, vel, size))

-----------------------------------------------------------------------------
\* Values of the variables a specification does not use.

NoMap == [width |-> 0, height |-> 0, tiles |-> <<>>]
NoLoad == [status |-> "none", rows |-> <<>>]
NoQuery == [x |-> 0, y |-> 0, nx |-> 0, ny |-> 0, pos |-> 0, value |-> "none"]
NoPlayer == [pos |-> Point2d(Zero, Zero), vel |-> Point2d(Zero, Zero)]
NoInputs == [k \in {"NONE", "LEFT", "RIGHT", "JUMP", "RESTART", "QUIT"} |-> FALSE]
NoFrame == [ran |-> 0, keys |-> 0]

-----------------------------------------------------------------------------
\* SpecMove: move_box as a function of its arguments, one loop iteration
\* per step, on every 3 x 3 map with at most MaxSolid solid tiles.

MaxSolid == 2

\* A 3 x 3 map whose solid tiles are the cells of S (0..8, row-major);
\* the middle tile is the start tile when it is not solid.
GridOf(S) ==
    [ width |-> 3, height |-> 3,
      tiles |-> [k \in 1..9 |-> IF (k - 1) \in S THEN 1
                                ELSE IF k = 5 THEN START ELSE AIR] ]

MoveMaps == {GridOf(S) : S \in {T \in SUBSET (0..8) : Cardinality(T) <= MaxSolid}}

\* Centres around the middle tile, on and next to the rounding boundary of
\* the box corners: 95.5 + 32 = 127.5 rounds to 128, the next tile.
MovePositions ==
    { Point2d(Float(949, 10), Float(949, 10)), Point2d(Float(949, 10), F(95)),
      Point2d(F(95), F(95)), Point2d(Float(955, 10), F(95)),
      Point2d(F(95), Float(955, 10)), Point2d(Float(955, 10), Float(955, 10)) }

\* Velocities: a grid of magnitudes from 0 to 4.24 (1 to 5 iterations), and
\* three on which rounding decides: 21 steps of 0.6 / 21 from 94.9 end just
\* below 95.5, 6 steps of 0.75 / 9 from 95 end just below 95.5, and the
\* length of (6.72, 1.96) is computed as 6.999999999999999.
MoveSpeeds == {F(-3), Zero, Float(15, 10)}
MoveVelocities ==
    {Point2d(a, b) : a \in MoveSpeeds, b \in MoveSpeeds}
    \cup { Point2d(Float(6, 10), Float(-2025, 100)),
           Point2d(Float(-81, 10), Float(75, 100)),
           Point2d(Float(672, 100), Float(196, 100)) }

\* The player's box, and one narrower than a tile.
MoveSizes == {PLAYER_SIZE, Point2d(F(62), F(64))}

InitMove ==
    /\ \E p \in MovePositions, v \in MoveVelocities, s \in MoveSizes :
           mb = MoveBoxStart(p, v, s)
    /\ map \in MoveMaps
    /\ pc = "loop"
    /\ load = NoLoad /\ query = NoQuery /\ player = NoPlayer
    /\ inputs = NoInputs /\ elapsed = 0 /\ last_tick = 0 /\ new_tick = 0
    /\ tick = 0 /\ calls = 0 /\ frame = NoFrame

\* One iteration of the loop of move_box.
MoveIterate ==
    /\ pc = "loop"
    /\ ~LoopDone(mb)
    /\ mb' = SubStep(map, mb)
    /\ UNCHANGED <<map, load, query, player, inputs, pc, elapsed, last_tick,
                   new_tick, tick, calls, frame>>

\* return result, pos, vel
MoveReturn ==
    /\ pc = "loop"
    /\ LoopDone(mb)
    /\ pc' = "returned"
    /\ UNCHANGED <<map, load, query, mb, player, inputs, elapsed, last_tick,
                   new_tick, tick, calls, frame>>

NextMove == MoveIterate \/ MoveReturn

SpecMove == InitMove /\ [][NextMove]_vars

-----------------------------------------------------------------------------
\* Player and Game.physics

\* Player.restart(): pos = Point2d(170, 500), vel = Vector2d(0, 0)
Restart == [pos |-> Point2d(F(170), F(500)), vel |-> Point2d(Zero, Zero)]

\* Mutant: restart() resets the position only.
AfterRestart_KeepsVel(p, in) == IF in.RESTART THEN [p EXCEPT !.pos = Restart.pos] ELSE p

\* "if self.inputs[Input.RESTART]: self.player.restart()": there is no
\* return, the tick goes on from the state this leaves.
AfterRestart(p, in) == IF in.RESTART THEN Restart ELSE p

Direction(in) == (IF in.RIGHT THEN 1 ELSE 0) - (IF in.LEFT THEN 1 ELSE 0)

\* The numbers of physics() as floats: -21, 0.75, 4.0, 0.95, 2.0, 8 and
\* float(direction) for the three directions.
JumpVel == F(-21)
Gravity == Float(75, 100)
GroundAccel == F(4)
AirKeep == Float(95, 100)
AirAccel == F(2)
MaxSpeed == F(8)
DirectionF == [d \in {-1, 0, 1} |-> F(d)]

\* The velocity handed to move_box, ground the answer of on_ground: jump,
\* gravity, horizontal blending and the clamp of vel.x.
VelOn(p, in, ground) ==
    Point2d(FMin(FMax(IF ground
                      THEN FAdd(FMul(Half, p.vel.x),
                                FMul(GroundAccel, DirectionF[Direction(in)]))
                      ELSE FAdd(FMul(AirKeep, p.vel.x),
                                FMul(AirAccel, DirectionF[Direction(in)])),
                      FNeg(MaxSpeed)),
                 MaxSpeed),
            FAdd(IF in.JUMP /\ ground THEN JumpVel ELSE p.vel.y, Gravity))

UpdateVel(m, p, in) == VelOn(p, in, on_ground(m, p.pos, PLAYER_SIZE))

\* The player after "collisions, self.player.pos, self.player.vel = move_box(...)".
Assigned(b) == [pos |-> b.pos, vel |-> b.vel]

\* Game.physics(): the locals of its move_box call at return.
Tick(m, q, in) == move_box(m, q.pos, UpdateVel(m, q, in), PLAYER_SIZE)
physics(m, p, in) == Tick(m, AfterRestart(p, in), in)

-----------------------------------------------------------------------------
\* main(): the frame loop

\* int((time() - start_time) * 50), elapsed in 1/100 s
TickOf(e) == e \div 2

\* Mutant: last_tick is never advanced.
NextLastTick_Forgotten(last, new) == last

\* last_tick = new_tick
NextLastTick(last, new) == new

\* to_input: the inputs a key stands for; any other key is NONE.
Keys == {"NONE", "LEFT", "RIGHT", "JUMP", "RESTART", "QUIT"}

\* What an event does to inputs: SDL_KEYDOWN and SDL_KEYUP set and clear the
\* input of their key, SDL_QUIT sets QUIT as a key-down of q does.
Events == [key : Keys, down : BOOLEAN]

RECURSIVE handle_input(_, _)
\* "for event in events": the events of one call, in order.
handle_input(in, events) ==
    IF events = <<>> THEN in
    ELSE handle_input([in EXCEPT ![Head(events).key] = Head(events).down],
                      Tail(events))

\* The lists of at most n events.
EventLists(n) == UNION {[1..k -> Events] : k \in 0..n}

\* The frame loop is followed for MaxTicks ticks, with MaxKeys events in all
\* and frames of at most MaxAdvance hundredths of a second.
MaxTicks == 5
MaxKeys == 2
MaxAdvance == 3

\* default.map is not part of the sources: three levels, 64-unit tiles,
\* 1 for a solid tile.
LevelPit ==
    [ width |-> 5, height |-> 10,
      tiles |-> <<1, 1, 0, 0, 1,   1, 1, 0, 0, 1,   1, 1, 0, 0, 1,
                  1, 1, 0, 0, 1,   1, 1, 0, 0, 1,   1, 1, 0, 0, 1,
                  1, 1, 0, 0, 1,   1, 1, START, 0, 1,
                  1, 1, 0, 0, FINISH,   1, 1, 1, 1, 1>> ]
LevelLedge ==
    [ width |-> 5, height |-> 10,
      tiles |-> <<0, 0, 0, 0, 0,   0, 0, 0, 0, 0,   0, 0, 0, 0, 0,
                  0, 0, 0, 0, 0,   0, 0, 0, 0, 0,   0, 0, 0, 0, 0,
                  0, 0, 0, 0, 0,   0, 0, START, 0, 0,
                  0, 0, 0, 1, 1,   1, 1, 1, 1, 1>> ]
LevelVoid ==
    [ width |-> 4, height |-> 9,
      tiles |-> [k \in 1..36 |-> IF k = 36 THEN FINISH ELSE AIR] ]
Levels == {LevelPit, LevelLedge, LevelVoid}

Init ==
    /\ map \in Levels
    /\ player = Restart
    /\ inputs = NoInputs
    /\ mb = MoveBoxStart(Restart.pos, Restart.vel, PLAYER_SIZE)
    /\ pc = "input"
    /\ elapsed = 0 /\ last_tick = 0 /\ new_tick = 0 /\ tick = 0
    /\ calls = 0 /\ frame = NoFrame
    /\ load = NoLoad /\ query = NoQuery

\* handle_input() on the events get_events() returns, then
\* new_tick = int((time() - start_time) * 50) and the start of the for loop.
HandleInput ==
    /\ pc = "input"
    /\ \E events \in EventLists(MaxKeys - frame.keys) :
           /\ inputs' = handle_input(inputs, events)
           /\ frame' = [ran |-> 0, keys |-> frame.keys + Len(events)]
    /\ \E e \in elapsed..Min(elapsed + MaxAdvance, 2 * MaxTicks + 1) :
           /\ elapsed' = e
           /\ new_tick' = TickOf(e)
    /\ tick' = last_tick
    /\ pc' = "ticks"
    /\ UNCHANGED <<map, load, query, mb, player, last_tick, calls>>

\* One iteration of "for tick in range(last_tick, new_tick): game.physics()".
Physics ==
    /\ pc = "ticks"
    /\ tick < new_tick
    /\ mb' = physics(map, player, inputs)
    /\ player' = Assigned(mb')
    /\ tick' = tick + 1
    /\ calls' = calls + 1
    /\ frame' = [frame EXCEPT !.ran = @ + 1]
    /\ UNCHANGED <<map, load, query, inputs, pc, elapsed, last_tick, new_tick>>

\* last_tick = new_tick; game.render(); then "while not QUIT".
Render ==
    /\ pc = "ticks"
    /\ tick >= new_tick
    /\ last_tick' = NextLastTick(last_tick, new_tick)
    /\ pc' = IF inputs.QUIT THEN "quit" ELSE "input"
    /\ UNCHANGED <<map, load, query, mb, player, inputs, elapsed, new_tick,
                   tick, calls, frame>>

Next == HandleInput \/ Physics \/ Render

Spec == Init /\ [][Next]_vars

-----------------------------------------------------------------------------
\* SpecMap: Map.__init__ line by line, then get_tile on the map it built.

MaxLines == 3
MaxWords == 3

\* The words line.split(' ') yields, before the line's newline is counted:
\* "" between two spaces (or for an empty rest), else a number.
Words == {"", "0", "1"}
Lines == UNION {[1..k -> Words] : k \in 1..MaxWords}

\* int(word) for the words of Words.
IntOf(word) == IF word = "1" THEN 1 ELSE 0

RECURSIVE Values(_)
\* The values the inner loop appends for a sequence of words: '' is skipped.
Values(ws) ==
    IF ws = <<>> THEN <<>>
    ELSE IF Head(ws) = "" THEN Values(Tail(ws))
    ELSE <<IntOf(Head(ws))>> \o Values(Tail(ws))

\* With the newline the last word of a line is word + "\n": int() accepts
\* "0\n" but raises ValueError on "\n"; the words before it were appended.
BadLastWord(ws, nl) == nl /\ ws[Len(ws)] = ""

\* Mutant: the row length is never checked.
Incompatible_Never(m, width) == FALSE

\* if self.width > 0 and self.width != width: raise RuntimeError(...)
Incompatible(m, width) == m.width > 0 /\ m.width # width

\* The body of "for line in file.readlines()" for one line: the map and the
\* outcome.  nl: the line ends with a newline (every line but, maybe, the last).
ReadLine(m, ws, nl) ==
    LET vals == Values(ws)
        width == Len(vals)
        appended == [m EXCEPT !.tiles = @ \o vals]
    IN  IF BadLastWord(ws, nl) THEN [map |-> appended, status |-> "ValueError"]
        ELSE IF Incompatible(m, width)
        THEN [map |-> appended, status |-> "RuntimeError"]
        ELSE [ map |-> [appended EXCEPT !.width = width, !.height = @ + 1],
               status |-> IF nl THEN "reading" ELSE "ok" ]

\* World coordinates asked of get_tile: far outside, on and next to tile borders.
QueryCoords == {-1000, -64, 0, 63, 64, 130, 1000}

InitMap ==
    /\ map = NoMap
    /\ load = [status |-> "reading", rows |-> <<>>]
    /\ query = NoQuery
    /\ pc = "Map"
    /\ mb = MoveBoxStart(Restart.pos, Restart.vel, PLAYER_SIZE)
    /\ player = NoPlayer /\ inputs = NoInputs
    /\ elapsed = 0 /\ last_tick = 0 /\ new_tick = 0 /\ tick = 0
    /\ calls = 0 /\ frame = NoFrame

\* One more line of the file is read.
LoadLine ==
    /\ load.status = "reading"
    /\ Len(load.rows) < MaxLines
    /\ \E ws \in Lines, nl \in BOOLEAN :
           LET r == ReadLine(map, ws, nl)
           IN  /\ nl \/ ws # <<"">>      \* readlines() yields no empty line
               /\ map' = r.map
               /\ load' = [status |-> r.status,
                           rows |-> Append(load.rows, Len(Values(ws)))]
    /\ UNCHANGED <<query, mb, player, inputs, pc, elapsed, last_tick, new_tick,
                   tick, calls, frame>>

\* readlines() has no more lines: the constructor returns.
LoadEnd ==
    /\ load.status = "reading"
    /\ load' = [load EXCEPT !.status = "ok"]
    /\ UNCHANGED <<map, query, mb, player, inputs, pc, elapsed, last_tick,
                   new_tick, tick, calls, frame>>

\* One call get_tile(x, y) on the constructed map.
GetTile ==
    /\ load.status = "ok"
    /\ pc = "Map"
    /\ pc' = "get_tile"
    /\ \E x \in QueryCoords, y \in QueryCoords :
           query' = [ x |-> x, y |-> y,
                      nx |-> TileColumn(map, x), ny |-> TileRow(map, y),
                      pos |-> TileRow(map, y) * map.width + TileColumn(map, x),
                      value |-> get_tile(map, x, y) ]
    /\ UNCHANGED <<map, load, mb, player, inputs, elapsed, last_tick,
                   new_tick, tick, calls, frame>>

NextMap == LoadLine \/ LoadEnd \/ GetTile

SpecMap == InitMap /\ [][NextMap]_vars

-----------------------------------------------------------------------------
\* Properties of move_box (SpecMove)

\* The iteration just made, derived again from the position and velocity
\* held before it.
LastCand == Add(mb.last.pos, Mul(mb.last.vel, mb.fraction))
LastTest(p) == test_box(map, p, mb.size)
LastYOnly == LastTest(Point2d(mb.last.pos.x, LastCand.y))
LastXOnly == LastTest(Point2d(LastCand.x, mb.last.pos.y))
StartedFree == ~test_box(map, mb.in.pos, mb.size)

\* C1: in an iteration whose candidate collides, a body blocked in X only
\* (the Y-only test is free, the X-only test collides) has Collision.X
\* recorded, vel.x = 0, pos.x kept, and vel.y and the Y displacement of the
\* iteration untouched; and the same with X and Y exchanged.
C1_AxisIndependence ==
    (mb.i > 0 /\ LastTest(LastCand)) =>
        /\ (~LastYOnly /\ LastXOnly) =>
               /\ "X" \in mb.result
               /\ mb.vel.x = Zero /\ mb.pos.x = mb.last.pos.x
               /\ mb.vel.y = mb.last.vel.y /\ mb.pos.y = LastCand.y
        /\ (LastYOnly /\ ~LastXOnly) =>
               /\ "Y" \in mb.result
               /\ mb.vel.y = Zero /\ mb.pos.y = mb.last.pos.y
               /\ mb.vel.x = mb.last.vel.x /\ mb.pos.x = LastCand.x

\* A diagonal move has just been blocked in X only.
C1_Witness ==
    /\ mb.i > 0 /\ mb.last.vel.x # Zero /\ mb.last.vel.y # Zero
    /\ LastTest(LastCand) /\ ~LastYOnly /\ LastXOnly

\* C2: from a free start, an iteration whose candidate collides while neither
\* single-axis test does records CORNER, zeroes the velocity and keeps the
\* position; from then on no iteration moves the body, so the call returns
\* that position, velocity (0, 0) and a result containing CORNER.
C2_CornerStops ==
    /\ [](( /\ mb.i > 0 /\ StartedFree
            /\ LastTest(LastCand) /\ ~LastYOnly /\ ~LastXOnly )
          => ( /\ "CORNER" \in mb.result
               /\ mb.vel = Point2d(Zero, Zero)
               /\ mb.pos = mb.last.pos ))
    /\ [][ ("CORNER" \in mb.result /\ StartedFree)
           => ( /\ "CORNER" \in mb'.result
                /\ mb'.vel = Point2d(Zero, Zero)
                /\ mb'.pos = mb.pos ) ]_vars

\* A call from a free start has returned after a corner hit that came after
\* some movement and before the last iteration.
C2_Witness ==
    /\ pc = "returned" /\ "CORNER" \in mb.result /\ ~mb.last.corner
    /\ mb.pos # mb.in.pos /\ StartedFree

\* C5 (as claimed): the caller's position and velocity objects hold, after
\* the call, the components they held before it.
C5_ArgumentsUntouched ==
    pc = "returned" => (mb.argPos = mb.in.pos /\ mb.argVel = mb.in.vel)

\* k = floor(d) + 1 for the float d
IsFloorPlusOne(k, d) == k >= 1 /\ FLe(F(k - 1), d) /\ FLt(d, F(k))

\* C8: a call makes exactly floor(m) + 1 iterations, m the magnitude
\* distance = vel.len() of the velocity passed in, also when a collision
\* zeroes a component on the way: the count is fixed on entry and stays; and
\* each iteration's candidate is pos + vel * fraction with
\* fraction = 1 / (floor(m) + 1).
C8_SubStepCount ==
    /\ []( /\ IsFloorPlusOne(mb.maximum + 1, mb.distance)
           /\ mb.i <= mb.maximum + 1
           /\ pc = "returned" => mb.i = mb.maximum + 1
           /\ mb.i > 0 => mb.last.cand =
                  Add(mb.last.pos, Mul(mb.last.vel, Float(1, mb.maximum + 1))) )
    /\ [][ /\ mb'.maximum = mb.maximum /\ mb'.distance = mb.distance
           /\ mb'.in = mb.in ]_vars

\* A call of at least three iterations has returned with a component zeroed
\* so early that the final velocity alone would give fewer iterations.
C8_Witness ==
    /\ pc = "returned" /\ mb.i >= 3 /\ mb.vel # mb.in.vel
    /\ FLt(len(mb.vel), F(mb.i - 2))

\* On every input of SpecMove: from a free start the position after every
\* iteration is free.
MoveStaysFree == (mb.i > 0 /\ StartedFree) => ~test_box(map, mb.pos, mb.size)

-----------------------------------------------------------------------------
\* Properties of the frame loop and of physics (Spec)

\* C3: with elapsed time that never decreases, after every frame the number
\* of physics() calls since the start is the current tick floor(elapsed * 50),
\* and when a frame's loop is over it has run new_tick - last_tick times:
\* none when the tick did not change.
C3_TickScheduling ==
    /\ pc \in {"input", "quit"} => (calls = elapsed \div 2 /\ last_tick = calls)
    /\ (pc = "ticks" /\ tick >= new_tick) =>
           /\ frame.ran = new_tick - last_tick
           /\ calls = elapsed \div 2

\* A frame that ran physics twice or more has ended, three ticks or more in.
C3_Witness == pc = "input" /\ calls >= 3 /\ frame.ran >= 2

\* A physics() call is the step that counts one more call.
PhysicsStep == calls' = calls + 1

\* The velocity a tick hands to move_box from the spawn state, written out:
\* in the air 0 + 0.75 down and 2.0 * direction across, on the ground 4.0 *
\* direction across and -21 + 0.75 with a jump.
SpawnTickVel ==
    LET ground == on_ground(map, Point2d(F(170), F(500)), PLAYER_SIZE)
        d == (IF inputs.RIGHT THEN 1 ELSE 0) - (IF inputs.LEFT THEN 1 ELSE 0)
    IN  Point2d(IF ground THEN F(4 * d) ELSE F(2 * d),
                IF ground /\ inputs.JUMP THEN Float(-2025, 100) ELSE Float(75, 100))

\* C4 (as claimed): a tick with the restart intent set ends with the player
\* at the spawn point with velocity (0, 0).
C4_RestartSkipsTick ==
    [][ (PhysicsStep /\ inputs.RESTART)
        => ( /\ player'.pos = Point2d(F(170), F(500))
             /\ player'.vel = Point2d(Zero, Zero) ) ]_vars

\* C4 (amended): a tick with the restart intent set first puts the player at
\* the spawn point with velocity (0, 0) and then runs the rest of the tick
\* from there: the move_box call of that tick starts at (170, 500) with the
\* velocity gravity, jump and the direction keys give a body at rest there,
\* and the player ends the tick with what that call returns.
C4_RestartThenTick ==
    [][ (PhysicsStep /\ inputs.RESTART)
        => ( /\ mb'.in.pos = Point2d(F(170), F(500))
             /\ mb'.in.vel = SpawnTickVel
             /\ mb'.i = mb'.maximum + 1
             /\ player'.vel = mb'.vel
             /\ player'.pos = mb'.pos ) ]_vars

\* A restart tick has just ended away from the spawn point, falling.
C4_Witness ==
    /\ calls > 0 /\ inputs.RESTART /\ pc = "ticks"
    /\ mb.in.pos = Point2d(F(170), F(500))
    /\ player.pos = Point2d(F(170), Float(50075, 100))
    /\ player.vel = Point2d(Zero, Float(75, 100))

\* A physics() call has just returned: mb holds the locals of its move_box call.
AfterPhysics == pc = "ticks" /\ frame.ran > 0

\* Whether a box test at t.at saw a solid tile under one of the four points
\* an offset of off away from it on each axis.
SolidAtOffsets(t, off) ==
    \E dx \in off, dy \in off :
        is_solid(map, Point2d(FAdd(t.at.x, dx), FAdd(t.at.y, dy)))

Off16 == {F(-16), F(16)}
Off32 == {F(-32), F(32)}

\* C9 (as claimed): every box test of a physics tick answers for the four
\* points 16 world units off the tested position.
C9_QuarterHull == AfterPhysics => \A t \in mb.tests : t.hit = SolidAtOffsets(t, Off16)

\* C9 (amended): every box test of a physics tick answers for the four
\* points 32 world units off the tested position on each axis, the corners
\* of the full 64 x 64 box: it reports a collision iff one of them is solid.
C9_FullHull == AfterPhysics => \A t \in mb.tests : t.hit = SolidAtOffsets(t, Off32)

\* A tick made a box test that collides at 32 units and would not at 16.
C9_Witness ==
    /\ AfterPhysics
    /\ \E t \in mb.tests : t.hit /\ ~SolidAtOffsets(t, Off16)

SpawnFree == ~test_box(map, Restart.pos, PLAYER_SIZE)

\* C10: when the player starts free (test_box false at the spawn point), the
\* position after every iteration of every move_box call and the position
\* the player holds after every tick are free (the position changes in
\* physics() only).
C10_NeverEmbedded ==
    (AfterPhysics /\ SpawnFree) =>
        /\ ~test_box(map, player.pos, PLAYER_SIZE)
        /\ \A t \in mb.trail : ~test_box(map, t, PLAYER_SIZE)

\* A free start, and a tick of several iterations that was blocked by a
\* wall on the way and went on.
C10_Witness ==
    /\ AfterPhysics /\ SpawnFree
    /\ "X" \in mb.result /\ mb.maximum >= 2
    /\ player.pos # mb.in.pos

-----------------------------------------------------------------------------
\* Properties of the map (SpecMap)

WellFormed(m) == m.width >= 1 /\ m.height >= 1 /\ Len(m.tiles) = m.width * m.height

Uniform(rows) == \A i \in 1..Len(rows) : rows[i] = rows[1]

\* C7: construction fails on the first row whose element count differs from
\* the first row's, so as long as it has not failed all rows read agree; and
\* when it succeeds width is the common row length, height the number of
\* rows and len(tiles) = width * height.
C7_Construction ==
    /\ load.status \in {"reading", "ok"} => Uniform(load.rows)
    /\ load.status \in {"RuntimeError", "ValueError"} =>
           Uniform(SubSeq(load.rows, 1, Len(load.rows) - 1))
    /\ load.status = "RuntimeError" => load.rows[Len(load.rows)] # load.rows[1]
    /\ load.status = "ok" =>
           /\ map.height = Len(load.rows)
           /\ Len(load.rows) >= 1 => map.width = load.rows[1]
           /\ Len(map.tiles) = map.width * map.height

\* Rows of three then two values: construction has failed on the second.
C7_Witness == load.status = "RuntimeError" /\ load.rows = <<3, 2>>

====
